---- MODULE Spec2Model ----
(***************************************************************************)
(* Model of rpc/getBlock.go: Client.GetBlock and Client.GetBlockWithOpts.  *)
(*                                                                         *)
(* A caller invokes GetBlock(slot) or GetBlockWithOpts(slot, opts).  The   *)
(* call builds the options object obj, validates the encoding, hands       *)
(* []interface{}{slot, obj} to the JSON-RPC transport (CallForInto) and    *)
(* maps the transport's reply to (out, err).  The transport is external:   *)
(* its reply is a nondeterministic choice.                                 *)
(***************************************************************************)
EXTENDS Integers, FiniteSets, Sequences, TLC

(***************************************************************************)
(* Bounds of the model.                                                    *)
(***************************************************************************)
MaxSlot == 2
NumCallers == 2

Slots == 0..MaxSlot

(***************************************************************************)
(* solana.EncodingType values named by GetBlockWithOpts, and the           *)
(* TransactionDetailsType constants.                                       *)
(***************************************************************************)
EncodingJSON == "json"
EncodingJSONParsed == "jsonParsed"
EncodingBase58 == "base58"
EncodingBase64 == "base64"

TransactionDetailsFull == "full"
TransactionDetailsSignatures == "signatures"
TransactionDetailsNone == "none"

(***************************************************************************)
(* Go values.  A *bool is an address in BoolHeap or NilPtr; a *GetBlockOpts*)
(* is NilOpts or a struct; an error is NilErr or an error value; a         *)
(* *GetBlockResult is NilResult or a decoded block.                        *)
(***************************************************************************)
NilPtr == "nil"
BoolHeap == [ptrTrue |-> TRUE, ptrFalse |-> FALSE]
BoolPtrs == {"ptrTrue", "ptrFalse"}

NilOpts == [isNil |-> TRUE]
NilErr == [isNil |-> TRUE]
NilResult == [isNil |-> TRUE]

GetBlockOpts(enc, td, rw, cm) ==
    [isNil |-> FALSE, Encoding |-> enc, TransactionDetails |-> td,
     Rewards |-> rw, Commitment |-> cm]

\* Values a caller may put in each field ("" and NilPtr: not supplied).
EncodingInputs ==
    {"", EncodingJSON, EncodingJSONParsed, EncodingBase58, EncodingBase64,
     "xml", "JSON"}
TransactionDetailsInputs ==
    {"", TransactionDetailsFull, TransactionDetailsSignatures,
     TransactionDetailsNone, "everything"}
RewardsInputs == {NilPtr} \cup BoolPtrs
CommitmentInputs == {"", "finalized", "confirmed", "processed", "eventually"}

AllOpts ==
    {NilOpts} \cup
    {GetBlockOpts(e, t, r, c) :
        e \in EncodingInputs, t \in TransactionDetailsInputs,
        r \in RewardsInputs, c \in CommitmentInputs}

EmptyOpts == GetBlockOpts("", "", NilPtr, "")

\* The bundles used when several callers run concurrently.
ConcOpts ==
    {GetBlockOpts("xml", TransactionDetailsFull, "ptrTrue", "finalized"),
     GetBlockOpts(EncodingBase64, "", "ptrFalse", "processed")}

(***************************************************************************)
(* Errors.                                                                 *)
(***************************************************************************)
Error(m, a) == [isNil |-> FALSE, msg |-> m, arg |-> a]

\* rpc.ErrNotConfirmed, the sentinel returned at line 112.
ErrNotConfirmed == Error("ErrNotConfirmed", "")

\* fmt.Errorf("provided encoding is not supported: %s", opts.Encoding)
UnsupportedEncodingError(enc) ==
    Error("provided encoding is not supported: %s", enc)

\* Failures the transport can report: network, protocol, an RPC error
\* object sent by the node, cancellation of ctx.
TransportErrors ==
    {Error("network", "connection refused"),
     Error("protocol", "invalid character in response"),
     Error("rpc", "-32004 block not available for slot"),
     Error("context", "context canceled")}

(***************************************************************************)
(* Decoded results.  Block is a fully decoded GetBlockResult; PartialBlock *)
(* is what a failing transport may already have written through &out.      *)
(***************************************************************************)
Block == [isNil |-> FALSE, blockhash |-> "B", parentSlot |-> 4]
PartialBlock == [isNil |-> FALSE, blockhash |-> "B", parentSlot |-> 0]

(***************************************************************************)
(* State.  inputs is the pool the callers draw their arguments from; the   *)
(* other variables are per caller: the position in the call, the entry     *)
(* point and arguments, the requests handed to the transport during the    *)
(* call, the transport's reply, and the named results out and err.         *)
(***************************************************************************)
VARIABLES inputs, pc, api, slot, opts, sent, reply, out, err

vars == <<inputs, pc, api, slot, opts, sent, reply, out, err>>

Callers == DOMAIN pc

(***************************************************************************)
(* The Go map M as a function from its keys.                               *)
(***************************************************************************)
Put(m, k, v) == [x \in (DOMAIN m) \cup {k} |-> IF x = k THEN v ELSE m[x]]

\* Variant: obj is one map shared by all calls instead of a fresh local, so
\* a key written by a call still in progress shows up in the next one.
DefaultObjShared ==
    LET live == {j \in Callers : opts[j] # NilOpts /\ sent[j] # <<>>}
    IN  IF \E j \in live : opts[j].Commitment # ""
        THEN LET j == CHOOSE k \in live : opts[k].Commitment # ""
             IN  Put([x \in {"encoding"} |-> EncodingJSON],
                     "commitment", opts[j].Commitment)
        ELSE [x \in {"encoding"} |-> EncodingJSON]

\* obj := M{"encoding": solana.EncodingJSON}
DefaultObj == [x \in {"encoding"} |-> EncodingJSON]

\* if opts.TransactionDetails != "" { obj["transactionDetails"] = ... }
SetTransactionDetails(o, obj) ==
    IF o.TransactionDetails # ""
    THEN Put(obj, "transactionDetails", o.TransactionDetails)
    ELSE obj

\* Variant: the key is written whether or not the pointer is nil.
SetRewardsAlways(o, obj) == Put(obj, "rewards", o.Rewards)

\* Variant: the zero value stands for "not supplied"
\* (if opts.Rewards != nil && *opts.Rewards).
SetRewardsIfTrue(o, obj) ==
    IF o.Rewards # NilPtr /\ BoolHeap[o.Rewards]
    THEN Put(obj, "rewards", o.Rewards)
    ELSE obj

\* if opts.Rewards != nil { obj["rewards"] = opts.Rewards }
SetRewards(o, obj) ==
    IF o.Rewards # NilPtr THEN Put(obj, "rewards", o.Rewards) ELSE obj

\* Variant: the commitment is checked locally and sent only when the node
\* is known to accept it for getBlock.
SetCommitmentChecked(o, obj) ==
    IF o.Commitment \in {"finalized", "confirmed"}
    THEN Put(obj, "commitment", o.Commitment)
    ELSE obj

\* if opts.Commitment != "" { obj["commitment"] = opts.Commitment }
SetCommitment(o, obj) ==
    IF o.Commitment # "" THEN Put(obj, "commitment", o.Commitment) ELSE obj

\* solana.IsAnyOfEncodingType(candidate, allowed...)
IsAnyOfEncodingType(candidate, allowed) == candidate \in allowed

\* Variant: one encoding missing from the list.
ValidEncodingsNoBase58 == {EncodingJSON, EncodingJSONParsed, EncodingBase64}

\* The encodings listed in the call at lines 89-96.
ValidEncodings ==
    {EncodingJSON, EncodingJSONParsed, EncodingBase58, EncodingBase64}

\* Variant: the encoding is copied without the membership test.
BuildObjUnvalidated(o) ==
    IF o = NilOpts
    THEN [err |-> NilErr, obj |-> DefaultObj]
    ELSE LET obj3 == SetCommitment(o, SetRewards(o,
                         SetTransactionDetails(o, DefaultObj)))
         IN  IF o.Encoding # ""
             THEN [err |-> NilErr, obj |-> Put(obj3, "encoding", o.Encoding)]
             ELSE [err |-> NilErr, obj |-> obj3]

\* Variant: no "if opts != nil"; reading a field of a nil *GetBlockOpts
\* panics, which ends the call before anything is sent.
BuildObjNilDeref(o) ==
    IF o = NilOpts
    THEN [err |-> Error("panic", "nil pointer dereference"),
          obj |-> DefaultObj]
    ELSE LET obj3 == SetCommitment(o, SetRewards(o,
                         SetTransactionDetails(o, DefaultObj)))
         IN  IF o.Encoding # ""
             THEN IF ~IsAnyOfEncodingType(o.Encoding, ValidEncodings)
                  THEN [err |-> UnsupportedEncodingError(o.Encoding),
                        obj |-> obj3]
                  ELSE [err |-> NilErr,
                        obj |-> Put(obj3, "encoding", o.Encoding)]
             ELSE [err |-> NilErr, obj |-> obj3]

\* Lines 74-101: the options object, or the error of the early return.
BuildObj(o) ==
    IF o = NilOpts
    THEN [err |-> NilErr, obj |-> DefaultObj]
    ELSE LET obj1 == SetTransactionDetails(o, DefaultObj)
             obj2 == SetRewards(o, obj1)
             obj3 == SetCommitment(o, obj2)
         IN  IF o.Encoding # ""
             THEN IF ~IsAnyOfEncodingType(o.Encoding, ValidEncodings)
                  THEN [err |-> UnsupportedEncodingError(o.Encoding),
                        obj |-> obj3]
                  ELSE [err |-> NilErr,
                        obj |-> Put(obj3, "encoding", o.Encoding)]
             ELSE [err |-> NilErr, obj |-> obj3]

\* params := []interface{}{slot, obj}
Params(s, obj) == <<s, obj>>

(***************************************************************************)
(* The transport marshals the parameters to JSON.  A string is sent as a   *)
(* JSON string, a *bool as the boolean it points to (null when nil).       *)
(***************************************************************************)
JSONString(s) == [type |-> "string", val |-> s]
JSONBool(b) == [type |-> "bool", val |-> IF b THEN "true" ELSE "false"]
JSONNull == [type |-> "null", val |-> "null"]

MarshalValue(k, v) ==
    IF k = "rewards"
    THEN IF v = NilPtr THEN JSONNull ELSE JSONBool(BoolHeap[v])
    ELSE JSONString(v)

MarshalParams(p) == <<p[1], [k \in DOMAIN p[2] |-> MarshalValue(k, p[2][k])]>>

Request(method, p) == [method |-> method, params |-> MarshalParams(p)]

NoReply == [out |-> NilResult, err |-> NilErr]

InitCallers(cs, in) ==
    /\ inputs = in
    /\ pc = [i \in cs |-> "idle"]
    /\ api = [i \in cs |-> "none"]
    /\ slot = [i \in cs |-> 0]
    /\ opts = [i \in cs |-> NilOpts]
    /\ sent = [i \in cs |-> <<>>]
    /\ reply = [i \in cs |-> NoReply]
    /\ out = [i \in cs |-> NilResult]
    /\ err = [i \in cs |-> NilErr]

\* One caller, every option bundle.
Init == InitCallers({1}, [slots |-> Slots, opts |-> AllOpts])

\* Several callers in parallel.
InitConc == InitCallers(1..NumCallers, [slots |-> {0, MaxSlot}, opts |-> ConcOpts])

(***************************************************************************)
(* Lines 68-105: entry, request construction, validation, dispatch.        *)
(***************************************************************************)
Enter(i, a, s, o) ==
    /\ pc[i] = "idle"
    /\ api' = [api EXCEPT ![i] = a]
    /\ slot' = [slot EXCEPT ![i] = s]
    /\ opts' = [opts EXCEPT ![i] = o]
    /\ reply' = [reply EXCEPT ![i] = NoReply]
    /\ LET b == BuildObj(o)
       IN  IF b.err # NilErr
           THEN /\ out' = [out EXCEPT ![i] = NilResult]
                /\ err' = [err EXCEPT ![i] = b.err]
                /\ sent' = [sent EXCEPT ![i] = <<>>]
                /\ pc' = [pc EXCEPT ![i] = "done"]
           ELSE /\ out' = [out EXCEPT ![i] = NilResult]
                /\ err' = [err EXCEPT ![i] = NilErr]
                /\ sent' = [sent EXCEPT ![i] =
                              <<Request("getBlock", Params(s, b.obj))>>]
                /\ pc' = [pc EXCEPT ![i] = "call"]
    /\ UNCHANGED inputs

GetBlockWithOpts(i) ==
    \E s \in inputs.slots, o \in inputs.opts : Enter(i, "GetBlockWithOpts", s, o)

\* GetBlock(ctx, slot) is GetBlockWithOpts(ctx, slot, nil).
GetBlock(i) ==
    \E s \in inputs.slots : Enter(i, "GetBlock", s, NilOpts)

(***************************************************************************)
(* The transport answers the request of caller i (CallForInto returns).    *)
(***************************************************************************)
SuccessResults == {NilResult, Block}
FailureResults == {NilResult, PartialBlock}

CallForIntoSuccess(i) ==
    /\ pc[i] = "call"
    /\ \E r \in SuccessResults :
          /\ reply' = [reply EXCEPT ![i] = [out |-> r, err |-> NilErr]]
          /\ out' = [out EXCEPT ![i] = r]
    /\ err' = [err EXCEPT ![i] = NilErr]
    /\ pc' = [pc EXCEPT ![i] = "check"]
    /\ UNCHANGED <<inputs, api, slot, opts, sent>>

CallForIntoFailure(i) ==
    /\ pc[i] = "call"
    /\ \E e \in TransportErrors, r \in FailureResults :
          /\ reply' = [reply EXCEPT ![i] = [out |-> r, err |-> e]]
          /\ out' = [out EXCEPT ![i] = r]
          /\ err' = [err EXCEPT ![i] = e]
    /\ pc' = [pc EXCEPT ![i] = "check"]
    /\ UNCHANGED <<inputs, api, slot, opts, sent>>

(***************************************************************************)
(* Lines 107-114: the result mapping, preceded by faulty variants of it.   *)
(***************************************************************************)
\* Variant: no "if out == nil" test.
ResultUnchecked(o, e) ==
    IF e # NilErr
    THEN [out |-> NilResult, err |-> e]
    ELSE [out |-> o, err |-> e]

\* Variant: a bare "return" on the error path, which leaves out as the
\* transport wrote it.
ResultKeepsOut(o, e) ==
    IF e # NilErr
    THEN [out |-> o, err |-> e]
    ELSE IF o = NilResult
         THEN [out |-> NilResult, err |-> ErrNotConfirmed]
         ELSE [out |-> o, err |-> e]

\* Variant: every failure after dispatch is reported as ErrNotConfirmed.
ResultMerged(o, e) ==
    IF e # NilErr \/ o = NilResult
    THEN [out |-> NilResult, err |-> ErrNotConfirmed]
    ELSE [out |-> o, err |-> e]

\* if err != nil { return nil, err }; if out == nil { return nil,
\* ErrNotConfirmed }; return
Result(o, e) ==
    IF e # NilErr
    THEN [out |-> NilResult, err |-> e]
    ELSE IF o = NilResult
         THEN [out |-> NilResult, err |-> ErrNotConfirmed]
         ELSE [out |-> o, err |-> e]

Return(i) ==
    /\ pc[i] = "check"
    /\ LET r == Result(out[i], err[i])
       IN  /\ out' = [out EXCEPT ![i] = r.out]
           /\ err' = [err EXCEPT ![i] = r.err]
    /\ pc' = [pc EXCEPT ![i] = "done"]
    /\ UNCHANGED <<inputs, api, slot, opts, sent, reply>>

\* The caller has taken (out, err); the frame of the call is gone.
Finish(i) ==
    /\ pc[i] = "done"
    /\ pc' = [pc EXCEPT ![i] = "idle"]
    /\ api' = [api EXCEPT ![i] = "none"]
    /\ slot' = [slot EXCEPT ![i] = 0]
    /\ opts' = [opts EXCEPT ![i] = NilOpts]
    /\ sent' = [sent EXCEPT ![i] = <<>>]
    /\ reply' = [reply EXCEPT ![i] = NoReply]
    /\ out' = [out EXCEPT ![i] = NilResult]
    /\ err' = [err EXCEPT ![i] = NilErr]
    /\ UNCHANGED inputs

Next ==
    \/ \E i \in Callers : GetBlock(i)
    \/ \E i \in Callers : GetBlockWithOpts(i)
    \/ \E i \in Callers : CallForIntoSuccess(i)
    \/ \E i \in Callers : CallForIntoFailure(i)
    \/ \E i \in Callers : Return(i)
    \/ \E i \in Callers : Finish(i)

Spec == Init /\ [][Next]_vars

SpecConc == InitConc /\ [][Next]_vars

(***************************************************************************)
(* Properties.                                                             *)
(***************************************************************************)
Started(i) == api[i] # "none"
Dispatched(i) == sent[i] # <<>>
WireObj(i) == sent[i][1].params[2]
HasOpts(i) == Started(i) /\ opts[i] # NilOpts
JSONText(s) == [type |-> "string", val |-> s]
OnlyDefaultEncoding == [k \in {"encoding"} |-> JSONText("json")]

\* C1: with a non-empty opts.Encoding, a value among json, jsonParsed,
\* base58, base64 is what the transport receives under "encoding"; any
\* other value ends the call with the unsupported-encoding error, a nil
\* result and no transport call.
C1_EncodingValidated ==
    \A i \in Callers :
        (HasOpts(i) /\ opts[i].Encoding # "") =>
            IF opts[i].Encoding \in {"json", "jsonParsed", "base58", "base64"}
            THEN /\ Len(sent[i]) = 1
                 /\ "encoding" \in DOMAIN WireObj(i)
                 /\ WireObj(i)["encoding"] = JSONText(opts[i].Encoding)
            ELSE /\ pc[i] = "done"
                 /\ sent[i] = <<>>
                 /\ out[i] = NilResult
                 /\ err[i] = [isNil |-> FALSE,
                              msg |-> "provided encoding is not supported: %s",
                              arg |-> opts[i].Encoding]

C1_Witness ==
    \E i \in Callers :
        /\ pc[i] = "done" /\ HasOpts(i) /\ opts[i].Encoding = "xml"
        /\ opts[i].Commitment = "finalized"
        /\ sent[i] = <<>> /\ err[i] # NilErr

\* C2: when the transport succeeds with an empty result the call returns
\* (nil, ErrNotConfirmed); no call returns a nil result with a nil error.
C2_EmptyResultIsNotConfirmed ==
    \A i \in Callers :
        pc[i] = "done" =>
            /\ ~(out[i] = NilResult /\ err[i] = NilErr)
            /\ (Dispatched(i) /\ reply[i].err = NilErr
                    /\ reply[i].out = NilResult)
                  => (out[i] = NilResult /\ err[i] = ErrNotConfirmed)

C2_Witness ==
    \E i \in Callers :
        /\ pc[i] = "done" /\ Dispatched(i)
        /\ reply[i] = [out |-> NilResult, err |-> NilErr]
        /\ err[i] = ErrNotConfirmed

\* C3: when the transport reports a failure the call returns that same
\* error value with a nil result, also when the transport had already
\* written into out.
C3_TransportErrorPropagated ==
    \A i \in Callers :
        (pc[i] = "done" /\ Dispatched(i) /\ reply[i].err # NilErr) =>
            (err[i] = reply[i].err /\ out[i] = NilResult)

C3_Witness ==
    \E i \in Callers :
        /\ pc[i] = "done" /\ Dispatched(i)
        /\ reply[i].err # NilErr /\ reply[i].err.msg = "context"
        /\ reply[i].out = PartialBlock
        /\ out[i] = NilResult

\* C4: with an options bundle whose fields are all empty the transport
\* receives [slot, {"encoding": "json"}], the object having no other key.
C4_EmptyOptsOnlyEncoding ==
    \A i \in Callers :
        (HasOpts(i) /\ opts[i].Encoding = "" /\ opts[i].TransactionDetails = ""
            /\ opts[i].Rewards = NilPtr /\ opts[i].Commitment = "") =>
            sent[i] = <<[method |-> "getBlock",
                         params |-> <<slot[i], OnlyDefaultEncoding>>]>>

C4_Witness ==
    \E i \in Callers :
        /\ pc[i] = "call" /\ opts[i] = EmptyOpts /\ slot[i] = MaxSlot
        /\ DOMAIN WireObj(i) = {"encoding"}

\* C5: in a call that reaches the transport, each of transactionDetails,
\* rewards and commitment is a key of the transmitted object exactly when
\* the caller supplied it, with the supplied value; rewards = false is
\* sent as a present key with value false.
C5_OptionalKeys ==
    \A i \in Callers :
        Dispatched(i) =>
            /\ DOMAIN WireObj(i) \subseteq
                  {"encoding", "transactionDetails", "rewards", "commitment"}
            /\ "transactionDetails" \in DOMAIN WireObj(i)
                  <=> (HasOpts(i) /\ opts[i].TransactionDetails # "")
            /\ "rewards" \in DOMAIN WireObj(i)
                  <=> (HasOpts(i) /\ opts[i].Rewards # NilPtr)
            /\ "commitment" \in DOMAIN WireObj(i)
                  <=> (HasOpts(i) /\ opts[i].Commitment # "")
            /\ "transactionDetails" \in DOMAIN WireObj(i) =>
                  WireObj(i)["transactionDetails"]
                      = JSONText(opts[i].TransactionDetails)
            /\ "commitment" \in DOMAIN WireObj(i) =>
                  WireObj(i)["commitment"] = JSONText(opts[i].Commitment)
            /\ "rewards" \in DOMAIN WireObj(i) =>
                  WireObj(i)["rewards"] =
                      [type |-> "bool",
                       val |-> IF opts[i].Rewards = "ptrTrue"
                               THEN "true" ELSE "false"]

C5_Witness ==
    \E i \in Callers :
        /\ Dispatched(i) /\ HasOpts(i) /\ opts[i].Rewards = "ptrFalse"
        /\ opts[i].TransactionDetails = "" /\ opts[i].Commitment = ""
        /\ DOMAIN WireObj(i) = {"encoding", "rewards"}
        /\ WireObj(i)["rewards"].val = "false"

\* C6 as stated: every finished invocation has made exactly one transport
\* call and returns exactly one of a result and an error.
C6_ExactlyOneCall ==
    \A i \in Callers :
        pc[i] = "done" =>
            /\ Len(sent[i]) = 1
            /\ (out[i] = NilResult) # (err[i] = NilErr)

RejectedLocally(i) ==
    /\ HasOpts(i)
    /\ opts[i].Encoding \notin {"", "json", "jsonParsed", "base58", "base64"}

\* C6 amended: an invocation never makes more than one transport call; a
\* finished invocation has made exactly one call, of method getBlock,
\* unless its encoding is non-empty and unsupported, in which case it has
\* made none; it returns exactly one of a result and an error.
C6_AtMostOneCall ==
    \A i \in Callers :
        /\ Len(sent[i]) <= 1
        /\ Dispatched(i) => sent[i][1].method = "getBlock"
        /\ pc[i] = "done" =>
              /\ Len(sent[i]) = IF RejectedLocally(i) THEN 0 ELSE 1
              /\ (out[i] = NilResult) # (err[i] = NilErr)

C6_Witness ==
    \E i \in Callers :
        /\ pc[i] = "done" /\ ~RejectedLocally(i) /\ HasOpts(i)
        /\ Len(sent[i]) = 1 /\ out[i] = Block /\ err[i] = NilErr

\* What the caller can tell from the returned error alone.
Classify(e) ==
    IF e = ErrNotConfirmed THEN "BlockNotConfirmed"
    ELSE IF e.msg = "provided encoding is not supported: %s"
         THEN "UnsupportedEncoding"
         ELSE "TransportError"

\* What happened in the call.
Condition(i) ==
    IF ~Dispatched(i) THEN "UnsupportedEncoding"
    ELSE IF reply[i].err # NilErr THEN "TransportError"
         ELSE "BlockNotConfirmed"

\* C7: the error returned by a failing invocation tells which of the
\* three conditions occurred: unsupported encoding, transport failure,
\* block not confirmed.
C7_ErrorsDistinguishable ==
    \A i \in Callers :
        (pc[i] = "done" /\ err[i] # NilErr) =>
            Classify(err[i]) = Condition(i)

C7_Witness ==
    \E i \in Callers :
        /\ pc[i] = "done" /\ Dispatched(i)
        /\ reply[i].err # NilErr /\ reply[i].err.msg = "rpc"
        /\ Classify(err[i]) = "TransportError"

\* C8: with an empty or valid encoding, no commitment and no
\* transactionDetails value makes the call fail locally: the request is
\* handed to the transport with the value unchanged under its key.
C8_OnlyEncodingValidated ==
    \A i \in Callers :
        (HasOpts(i) /\ opts[i].Encoding \in
                {"", "json", "jsonParsed", "base58", "base64"}) =>
            /\ Len(sent[i]) = 1
            /\ opts[i].Commitment # "" =>
                  /\ "commitment" \in DOMAIN WireObj(i)
                  /\ WireObj(i)["commitment"] = JSONText(opts[i].Commitment)
            /\ opts[i].TransactionDetails # "" =>
                  /\ "transactionDetails" \in DOMAIN WireObj(i)
                  /\ WireObj(i)["transactionDetails"]
                        = JSONText(opts[i].TransactionDetails)

C8_Witness ==
    \E i \in Callers :
        /\ pc[i] = "call" /\ HasOpts(i)
        /\ opts[i].Commitment = "processed"
        /\ opts[i].TransactionDetails = "everything"
        /\ WireObj(i)["commitment"] = JSONText("processed")
        /\ WireObj(i)["transactionDetails"] = JSONText("everything")

\* C9: concurrent invocations are independent.  Two invocations with the
\* same slot and options hand the transport the same request whatever the
\* other callers did before or do meanwhile, and with the same transport
\* reply they return the same outcome; the request carries the
\* invocation's own slot.
C9_Independent ==
    \A i, j \in Callers :
        /\ Dispatched(i) => sent[i][1].params[1] = slot[i]
        /\ (Started(i) /\ Started(j) /\ slot[i] = slot[j] /\ opts[i] = opts[j])
              => /\ sent[i] = sent[j]
                 /\ (pc[i] = "done" /\ pc[j] = "done" /\ reply[i] = reply[j])
                       => (out[i] = out[j] /\ err[i] = err[j])

C9_Witness ==
    \E i, j \in Callers :
        /\ i # j /\ pc[i] = "done" /\ pc[j] = "call"
        /\ opts[i] = NilOpts /\ opts[j] # NilOpts
        /\ slot[i] # slot[j]
        /\ Dispatched(i) /\ out[i] = Block
        /\ "commitment" \in DOMAIN WireObj(j)
        /\ DOMAIN WireObj(i) = {"encoding"}

\* The outcome a caller expects for a transport reply.
Expected(r) ==
    IF r.err # NilErr THEN [out |-> NilResult, err |-> r.err]
    ELSE IF r.out = NilResult
         THEN [out |-> NilResult, err |-> ErrNotConfirmed]
         ELSE [out |-> r.out, err |-> NilErr]

\* C10: GetBlock(slot), GetBlockWithOpts(slot, nil) and GetBlockWithOpts
\* with all option fields empty make the same transport call, with
\* parameters [slot, {"encoding": "json"}], and return the same outcome
\* for the same reply; nil options never fail.
C10_NilOptsEquivalent ==
    \A i \in Callers :
        (Started(i) /\ opts[i] \in {NilOpts, EmptyOpts}) =>
            /\ sent[i] = <<[method |-> "getBlock",
                            params |-> <<slot[i], OnlyDefaultEncoding>>]>>
            /\ pc[i] = "done" =>
                  [out |-> out[i], err |-> err[i]] = Expected(reply[i])

C10_Witness ==
    \E i \in Callers :
        /\ api[i] = "GetBlock" /\ pc[i] = "done" /\ opts[i] = NilOpts
        /\ out[i] = Block /\ err[i] = NilErr

====
